---- MODULE Spec2Model ----
(***************************************************************************)
(* Model of the node editor's GraphEditor (nodeEditor/src/graphEditor.tsx): *)
(* the link synchronisation handlers registered by build(), addValueNode    *)
(* and buildMaterial.  The visual model (ports, links) and the node         *)
(* material's connection points are the state; one action per event the    *)
(* diagram library or the global state delivers to the editor.              *)
(*                                                                         *)
(* Spec follows the links of one diagram model; GraphSpec follows the      *)
(* construction of the diagram models from the material's output nodes     *)
(* (createNodeFromObject, build, the reset handler and the deferred        *)
(* flush); ValueSpec follows addValueNode over every type.                 *)
(***************************************************************************)
EXTENDS Integers, Sequences, FiniteSets, Bags, TLC

\* ------------------------------------------------------------------ bounds
\* Links alive in the visual model at the same time.
MaxLinks == 2
\* Diagram models built by build(): the constructor's and those of resets.
MaxPasses == 2

\* Triggers registered on an InputHub.
MaxTriggers == 2

\* Observers added to the hub's onEventObservable.
MaxObservers == 1

\* Modifier keys held down at the same time.
MaxHeld == 2

\* --------------------------------------------------------------- universe
Null == "null"

\* Connection points of the blocks already wrapped by visual nodes.
InputPoints == {"X", "Y"}
OutputPoints == {"O"}
Points == InputPoints \cup OutputPoints

\* connection.name of a NodeMaterialConnectionPoint
PointName(c) == c

\* Ports of the block nodes: one port per connection point, synchronised
\* with it when the node was prepared.
BlockPortOf(c) == CASE c = "X" -> "pX" [] c = "Y" -> "pY" [] c = "O" -> "pO"
BlockPorts == {BlockPortOf(c) : c \in Points}
BlockPortPoint(p) == CHOOSE c \in Points : BlockPortOf(c) = p

\* Output ports of the Input nodes addValueNode creates.
ValuePorts == {"v1"}

Ports == BlockPorts \cup ValuePorts

\* DefaultPortModel.position
Position(p) ==
    IF p \in ValuePorts THEN "output"
    ELSE IF BlockPortPoint(p) \in InputPoints THEN "input" ELSE "output"

\* The owning node of a port (one node per value port).
getNode(p) == p

TypeNames == {"Vector2", "Vector3", "Vector4", "Matrix", "Color3", "Color4"}
\* The types the node list is asked for here.
NodeListTypes == {"Vector3", "Color4"}

\* Results of nodeMaterial.build(true): it returns, or throws an error.
BuildOk == "ok"
BuildErrors == {"shader compilation failed"}
Outcomes == {BuildOk} \cup BuildErrors

\* ------------------------------------------------- the material's blocks
\* The material's output blocks (r1 in _vertexOutputNodes, r2 in
\* _fragmentOutputNodes when the editor is constructed), the blocks they can
\* depend on, and the blocks addNodeFromClass creates (n1 of an output
\* class, n2 of another).
RootBlocks == {"r1", "r2"}
InnerBlocks == {"a", "b"}
ClassBlocks == {"n1", "n2"}
Blocks == RootBlocks \cup InnerBlocks \cup ClassBlocks

\* NodeMaterialBlock.isFinalMerger: the output blocks.  An output block has
\* no output connection point, so no block depends on it.
isFinalMerger(block) == block \in RootBlocks \cup {"n1"}

\* NodeMaterialBlock.target of an output block.
Target(block) == IF block = "r1" THEN "Vertex" ELSE "Fragment"

\* The visual node's class, chosen by instanceof.
KindOf(block) ==
    CASE block = "a" -> "TextureNodeModel"
      [] block = "b" -> "LightNodeModel"
      [] OTHER -> "GenericNodeModel"

\* The blocks connected to a block's inputs, in the order of its inputs; a
\* graph gives them for every block.  Edges lead from r1, r2 to a, b and
\* from a to b only, so every graph is acyclic.
DepsOfVertex == {<<>>, <<"a">>, <<"a", "b">>}
DepsOfFragment == {<<>>, <<"a">>}
DepsOfInner == {<<>>, <<"b">>}
GraphOf(d1, d2, da) ==
    [x \in Blocks |-> CASE x = "r1" -> d1 [] x = "r2" -> d2 [] x = "a" -> da [] OTHER -> <<>>]
Graphs == {GraphOf(d1, d2, da) : d1 \in DepsOfVertex, d2 \in DepsOfFragment, da \in DepsOfInner}
NoGraph == GraphOf(<<>>, <<>>, <<>>)

\* setPosition(1600 - (300 * column), 210 * row)
BaseX == 1600
ColumnSpacing == 300
RowSpacing == 210

VARIABLES
    material,          \* globalState.nodeMaterial is set
    valueNodes,        \* Input nodes created by addValueNode (by their port)
    portConnection,    \* DefaultPortModel.connection
    portName,          \* DefaultPortModel.name
    portDefaultValue,  \* DefaultPortModel.defaultValue
    nodeConnection,    \* InputNodeModel.connection
    cpValue,           \* NodeMaterialConnectionPoint.value
    cpEdges,           \* connections made by connectTo: <<output point, input point>>
    links,             \* the model's LinkModels, as a bag: sourcePort, targetPort, listeners
    trace,             \* what the last event's handlers did, in order
    last,              \* the last event: its kind, link and ports
    preConnect,        \* connection points before the last both-bound link completion
    inputs,            \* the blocks connected to each block's inputs
    vertexOutputNodes,    \* nodeMaterial._vertexOutputNodes
    fragmentOutputNodes,  \* nodeMaterial._fragmentOutputNodes
    rowPos,            \* _rowPos: column -> last row used; no entry is undefined
    nodes,             \* _nodes: every visual node created, in creation order
    models,            \* the DiagramModels built so far; _model is the last
    toAdd,             \* _toAdd: NullArray, or ArrayOf the pending links
    timers,            \* the flushes scheduled by setTimeout, by pass, oldest first
    engineModel,       \* the model set on the engine (0: none yet)
    hubSource,         \* the revision of the InputHub that runs
    keyboardHubEvents, \* InputHub._keyboardHubEvents
    mouseHubEvents,    \* InputHub._mouseHubEvents
    modifierStates,    \* InputHub._modifierStates; no entry (undefined) is FALSE
    onKeyboardObserver,  \* InputHub._onKeyboardObserver
    onPointerObserver,   \* InputHub._onPointerObserver
    sceneObservers,    \* the observers on the scene's keyboard and pointer observables
    eventObservers,    \* the number of observers on InputHub.onEventObservable
    held               \* the modifier keys held down: <<keyCode, location>>

graphVars == <<inputs, vertexOutputNodes, fragmentOutputNodes, rowPos, nodes,
               models, toAdd, timers, engineModel>>

hubVars == <<hubSource, keyboardHubEvents, mouseHubEvents, modifierStates,
             onKeyboardObserver, onPointerObserver, sceneObservers, eventObservers, held>>

vars == <<material, valueNodes, portConnection, portName, portDefaultValue,
          nodeConnection, cpValue, cpEdges, links, trace, last, preConnect, graphVars,
          hubVars>>

\* The part of the state the handlers mutate, as a value.
Current ==
    [portConnection |-> portConnection, portName |-> portName,
     nodeConnection |-> nodeConnection, cpValue |-> cpValue,
     cpEdges |-> cpEdges, trace |-> <<>>, exception |-> Null]

Emit(st, op, a, b) == [st EXCEPT !.trace = Append(@, [op |-> op, a |-> a, b |-> b])]

\* A throw: the exception is pending until a catch clears it, and the
\* statements that follow the throwing call do not run.
Throw(st, err) == [st EXCEPT !.exception = err]

\* ------------------------------------------------ collaborators (not in src)
Invalid == [valid |-> FALSE, input |-> Null, output |-> Null]

SortInputOutput(a, b) ==
    IF a = Null \/ b = Null THEN Invalid
    ELSE IF Position(a) = "output" /\ Position(b) = "input"
        THEN [valid |-> TRUE, input |-> b, output |-> a]
    ELSE IF Position(b) = "output" /\ Position(a) = "input"
        THEN [valid |-> TRUE, input |-> a, output |-> b]
    ELSE Invalid

syncWithNodeMaterialConnectionPoint(st, p, c) ==
    Emit([st EXCEPT !.portConnection[p] = c, !.portName[p] = PointName(c)],
         "sync", p, c)

connectTo(st, from, to) ==
    Emit([st EXCEPT !.cpEdges = @ \cup {<<from, to>>}], "connectTo", from, to)

disconnectFrom(st, from, to) ==
    Emit([st EXCEPT !.cpEdges = @ \ {<<from, to>>}], "disconnectFrom", from, to)

\* ------------------------------------------------------------ graphEditor
setValue(st, c, v) == Emit([st EXCEPT !.cpValue[c] = v], "setValue", c, v)

\* JavaScript truthiness of a held value (the values here are objects or null).
Truthy(v) == v # Null

\* Mutant: the success entry is logged after the try/catch, so also on failure.
buildMaterial_logsSuccessAlways(st, outcome) ==
    LET called == Emit(st, "buildMaterial", Null, Null) IN
    IF ~material THEN called
    ELSE LET tried == Emit(called, "build", "true", outcome)
             caught == IF outcome = BuildOk THEN tried
                       ELSE Emit(tried, "log", "error", outcome)
         IN Emit(caught, "log", "info", "Node material build successful")

\* nodeMaterial.build(true): it returns, or throws an error.
nodeMaterialBuild(st, outcome) ==
    LET tried == Emit(st, "build", "true", outcome) IN
    IF outcome = BuildOk THEN tried ELSE Throw(tried, outcome)

\* Mutant: no try/catch around the build, its error leaves buildMaterial.
buildMaterial_noCatch(st, outcome) ==
    LET called == Emit(st, "buildMaterial", Null, Null) IN
    IF ~material THEN called
    ELSE LET tried == nodeMaterialBuild(called, outcome) IN
         IF tried.exception = Null
         THEN Emit(tried, "log", "info", "Node material build successful")
         ELSE tried

\* Mutant: buildMaterial does not test that there is a material.
buildMaterial_noGuard(st, outcome) ==
    LET called == Emit(st, "buildMaterial", Null, Null)
        tried == nodeMaterialBuild(called, outcome)
    IN IF tried.exception = Null
       THEN Emit(tried, "log", "info", "Node material build successful")
       ELSE Emit([tried EXCEPT !.exception = Null], "log", "error", tried.exception)

\* The trace records the call, then nodeMaterial.build(true) with what it did
\* (returned, or the error it threw), then the LogEntry notified: the success
\* entry inside the try, the error entry by the catch.
buildMaterial(st, outcome) ==
    LET called == Emit(st, "buildMaterial", Null, Null) IN
    IF ~material THEN called
    ELSE LET tried == nodeMaterialBuild(called, outcome) IN
         IF tried.exception = Null
         THEN Emit(tried, "log", "info", "Node material build successful")
         ELSE Emit([tried EXCEPT !.exception = Null], "log", "error", tried.exception)

\* Mutant: the port's name is not restored after the synchronisation.
InputNodeBranch_nameLost(st, out, in) ==
    LET synced == syncWithNodeMaterialConnectionPoint(st, out, st.portConnection[in])
        owned == Emit([synced EXCEPT !.nodeConnection[getNode(out)] = synced.portConnection[out]],
                      "setNodeConnection", getNode(out), synced.portConnection[out])
    IN setValue(owned, owned.portConnection[in], portDefaultValue[out])

\* Mutant: the output port does not adopt the input's connection point.
InputNodeBranch_notAdopted(st, out, in) ==
    LET name == st.portName[out]
        named == Emit([st EXCEPT !.portName[out] = name], "setName", out, name)
        owned == Emit([named EXCEPT !.nodeConnection[getNode(out)] = named.portConnection[out]],
                      "setNodeConnection", getNode(out), named.portConnection[out])
    IN setValue(owned, owned.portConnection[in], portDefaultValue[out])

\* targetPortChanged, lines 238-242: the output port of an Input node adopts
\* the input's connection point and injects its default value.
InputNodeBranch(st, out, in) ==
    LET name == st.portName[out]
        synced == syncWithNodeMaterialConnectionPoint(st, out, st.portConnection[in])
        named == Emit([synced EXCEPT !.portName[out] = name], "setName", out, name)
        owned == Emit([named EXCEPT !.nodeConnection[getNode(out)] = named.portConnection[out]],
                      "setNodeConnection", getNode(out), named.portConnection[out])
    IN setValue(owned, owned.portConnection[in], portDefaultValue[out])

\* Mutant: connectTo is called on the input's point with the output's point.
linkCompleted_reversed(st, link, outcome) ==
    LET out == st.portConnection[link.output]
        in == st.portConnection[link.input]
        acted ==
            IF out # Null /\ in # Null THEN connectTo(st, in, out)
            ELSE IF in # Null
                THEN (IF out = Null THEN InputNodeBranch(st, link.output, link.input) ELSE st)
            ELSE st
    IN IF material THEN buildMaterial(acted, outcome) ELSE acted

\* Mutant: the material is rebuilt before the connection is made.
linkCompleted_buildFirst(st, link, outcome) ==
    LET built == IF material THEN buildMaterial(st, outcome) ELSE st
        out == built.portConnection[link.output]
        in == built.portConnection[link.input]
    IN IF out # Null /\ in # Null THEN connectTo(built, out, in)
       ELSE IF in # Null
           THEN (IF out = Null THEN InputNodeBranch(built, link.output, link.input) ELSE built)
       ELSE built

\* Mutant: the default value is injected whenever the two ports are not both
\* bound, without testing the input port's connection.
linkCompleted_injectsUnlessBoth(st, link, outcome) ==
    LET out == st.portConnection[link.output]
        in == st.portConnection[link.input]
        acted ==
            IF out # Null /\ in # Null THEN connectTo(st, out, in)
            ELSE setValue(st, in, portDefaultValue[link.output])
    IN IF material THEN buildMaterial(acted, outcome) ELSE acted

\* targetPortChanged, lines 233-248: the body of if (link).
linkCompleted(st, link, outcome) ==
    LET out == st.portConnection[link.output]
        in == st.portConnection[link.input]
        acted ==
            IF out # Null /\ in # Null THEN connectTo(st, out, in)
            ELSE IF in # Null
                THEN (IF out = Null THEN InputNodeBranch(st, link.output, link.input) ELSE st)
            ELSE st
    IN IF material THEN buildMaterial(acted, outcome) ELSE acted

\* Mutant: the material is rebuilt also when the orientation is invalid.
targetPortChanged_alwaysBuilds(st, src, tgt, outcome) ==
    LET link == SortInputOutput(src, tgt) IN
    IF ~link.valid THEN (IF material THEN buildMaterial(st, outcome) ELSE st)
    ELSE linkCompleted(st, link, outcome)

\* Mutant: the source port is taken to be the output, the target the input,
\* only in that order.
targetPortChanged_sourceIsOutput(st, src, tgt, outcome) ==
    IF src # Null /\ tgt # Null /\ Position(src) = "output" /\ Position(tgt) = "input"
    THEN linkCompleted(st, [valid |-> TRUE, input |-> tgt, output |-> src], outcome)
    ELSE st

\* Mutant: the ports are not sorted: source as output, target as input,
\* whatever their positions.
targetPortChanged_unsorted(st, src, tgt, outcome) ==
    IF src # Null /\ tgt # Null
    THEN linkCompleted(st, [valid |-> TRUE, input |-> tgt, output |-> src], outcome)
    ELSE st

\* targetPortChanged, lines 229-249.
targetPortChanged(st, src, tgt, outcome) ==
    LET link == SortInputOutput(src, tgt) IN
    IF ~link.valid THEN st
    ELSE linkCompleted(st, link, outcome)

\* Mutant: the ports are resynchronised before disconnectFrom is called.
linkDeleted_syncFirst(st, src, tgt) ==
    LET cleared == Emit(st, "selectionChanged", Null, Null)
        link == SortInputOutput(src, tgt)
    IN IF ~link.valid THEN cleared
       ELSE LET out == cleared.portConnection[link.output]
                in == cleared.portConnection[link.input]
            IN IF in # Null
               THEN IF out # Null
                    THEN LET inSync == syncWithNodeMaterialConnectionPoint(cleared, link.input, in)
                             outSync == syncWithNodeMaterialConnectionPoint(inSync, link.output, out)
                         IN disconnectFrom(outSync, out, in)
                    ELSE IF Truthy(cleared.cpValue[in]) THEN setValue(cleared, in, Null)
                    ELSE cleared
               ELSE cleared

\* Mutant: the selection is cleared after the removal was handled.
linkDeleted_selectionLast(st, src, tgt) ==
    LET link == SortInputOutput(src, tgt)
        handled ==
            IF ~link.valid THEN st
            ELSE LET out == st.portConnection[link.output]
                     in == st.portConnection[link.input]
                 IN IF in # Null
                    THEN IF out # Null
                         THEN LET cut == disconnectFrom(st, out, in)
                                  inSync == syncWithNodeMaterialConnectionPoint(cut, link.input, cut.portConnection[link.input])
                              IN syncWithNodeMaterialConnectionPoint(inSync, link.output, inSync.portConnection[link.output])
                         ELSE IF Truthy(st.cpValue[in]) THEN setValue(st, in, Null)
                         ELSE st
                    ELSE st
    IN Emit(handled, "selectionChanged", Null, Null)

\* linksUpdated with isCreated = false, lines 207-223.
linkDeleted(st, src, tgt) ==
    LET cleared == Emit(st, "selectionChanged", Null, Null)
        link == SortInputOutput(src, tgt)
    IN IF ~link.valid THEN cleared
       ELSE LET out == cleared.portConnection[link.output]
                in == cleared.portConnection[link.input]
            IN IF in # Null
               THEN IF out # Null
                    THEN LET cut == disconnectFrom(cleared, out, in)
                             inSync == syncWithNodeMaterialConnectionPoint(cut, link.input, cut.portConnection[link.input])
                         IN syncWithNodeMaterialConnectionPoint(inSync, link.output, inSync.portConnection[link.output])
                    ELSE IF Truthy(cleared.cpValue[in]) THEN setValue(cleared, in, Null)
                    ELSE cleared
               ELSE cleared

\* Every listener added to the link runs targetPortChanged.
RECURSIVE NotifyTargetPortChanged(_, _, _, _, _)
NotifyTargetPortChanged(st, n, src, tgt, outs) ==
    IF n = 0 THEN st
    ELSE targetPortChanged(NotifyTargetPortChanged(st, n - 1, src, tgt, outs), src, tgt, outs[n])

\* Mutant: the Color3 case has no break and falls through to Color4.
DefaultValueOf_fallsThrough(type) ==
    CASE type = "Vector2" -> "Vector2.Zero"
      [] type = "Vector3" -> "Vector3.Zero"
      [] type = "Vector4" -> "Vector4.Zero"
      [] type = "Matrix" -> "Matrix.Identity"
      [] type = "Color3" -> "Color4(1,1,1,1)"
      [] type = "Color4" -> "Color4(1,1,1,1)"
      [] OTHER -> Null

DefaultValueOf(type) ==
    CASE type = "Vector2" -> "Vector2.Zero"
      [] type = "Vector3" -> "Vector3.Zero"
      [] type = "Vector4" -> "Vector4.Zero"
      [] type = "Matrix" -> "Matrix.Identity"
      [] type = "Color3" -> "Color3.White"
      [] type = "Color4" -> "Color4(1,1,1,1)"
      [] OTHER -> Null

\* ------------------------------------------------- graph construction
\* A field of type LinkModel[] | null: null, or the array with its elements.
NullArray == <<>>
ArrayOf(s) == <<s>>

\* The editor's fields and the material's output lists, as a value.
GraphCurrent ==
    [inputs |-> inputs, vertexOutputNodes |-> vertexOutputNodes,
     fragmentOutputNodes |-> fragmentOutputNodes, rowPos |-> rowPos, nodes |-> nodes,
     models |-> models, toAdd |-> toAdd, timers |-> timers, engineModel |-> engineModel,
     pass |-> 0, trace |-> <<>>, exception |-> Null]

\* A GraphEditor whose constructor has not called build() yet, for a material
\* with the given connections and output lists.
NewEditor(graph, vertex, fragment) ==
    [inputs |-> graph, vertexOutputNodes |-> vertex, fragmentOutputNodes |-> fragment,
     rowPos |-> [c \in {} |-> 0], nodes |-> <<>>, models |-> <<>>, toAdd |-> ArrayOf(<<>>),
     timers |-> <<>>, engineModel |-> 0, pass |-> 0, trace |-> <<>>, exception |-> Null]

NoModel == [nodes |-> {}, links |-> {}]

Min(S) == CHOOSE x \in S : \A y \in S : x <= y
Range(s) == {s[i] : i \in DOMAIN s}
Occurs(s, x) == Len(SelectSeq(s, LAMBDA e : e = x))

\* Whether a block is one of the material's output nodes.
Registered(g, block) ==
    IF Occurs(g.vertexOutputNodes \o g.fragmentOutputNodes, block) > 0
    THEN "registered" ELSE "absent"

\* NodeMaterial.addOutputNode: the block joins the output list of its target
\* unless it is there already.  The trace notes how the call found the block.
addOutputNode(g, block) ==
    LET called == Emit(g, "addOutputNode", block, Registered(g, block)) IN
    IF Target(block) = "Vertex"
    THEN (IF Occurs(called.vertexOutputNodes, block) > 0 THEN called
          ELSE [called EXCEPT !.vertexOutputNodes = Append(@, block)])
    ELSE (IF Occurs(called.fragmentOutputNodes, block) > 0 THEN called
          ELSE [called EXCEPT !.fragmentOutputNodes = Append(@, block)])

\* NodeMaterial.removeOutputNode: the block leaves the output lists; nothing
\* happens if it is in neither.
removeOutputNode(g, block) ==
    Emit([g EXCEPT !.vertexOutputNodes = SelectSeq(@, LAMBDA e : e # block),
                   !.fragmentOutputNodes = SelectSeq(@, LAMBDA e : e # block)],
         "removeOutputNode", block, Registered(g, block))

NodeCreationOptions(column, block, type, connection) ==
    [column |-> column, nodeMaterialBlock |-> block, type |-> type, connection |-> connection]

\* The column and row a node was positioned at.
Column(node) == (BaseX - node.x) \div ColumnSpacing
Row(node) == node.y \div RowSpacing

\* Mutant: the block is pushed on the output list of its target, whether or
\* not the list holds it.
registerOutput_pushes(g, block) ==
    IF ~isFinalMerger(block) THEN g
    ELSE IF ~material THEN Throw(g, "TypeError")
    ELSE IF Target(block) = "Vertex"
        THEN Emit([g EXCEPT !.vertexOutputNodes = Append(@, block)],
                  "addOutputNode", block, Registered(g, block))
    ELSE Emit([g EXCEPT !.fragmentOutputNodes = Append(@, block)],
              "addOutputNode", block, Registered(g, block))

\* createNodeFromObject, lines 105-107: a final merger is added to the
\* material's output nodes (nodeMaterial! is dereferenced).
registerOutput(g, block) ==
    IF ~isFinalMerger(block) THEN g
    ELSE IF ~material THEN Throw(g, "TypeError")
    ELSE addOutputNode(g, block)

RECURSIVE createNodeFromObject(_, _)
RECURSIVE prepare(_, _, _, _)

\* DefaultNodeModel.prepare, the inputs from the i-th on: the node of the
\* block connected to the input is the one _nodes already holds for it, else
\* a new one a column further; the link to it joins the pending links, or the
\* model directly once _toAdd is null.
prepare(g, self, options, i) ==
    LET deps == g.inputs[options.nodeMaterialBlock] IN
    IF i > Len(deps) THEN g
    ELSE LET existingNodes == {k \in DOMAIN g.nodes : g.nodes[k].block = deps[i]}
             made == IF existingNodes = {}
                     THEN createNodeFromObject(g, NodeCreationOptions(options.column + 1, deps[i], Null, Null))
                     ELSE g
             connectedNode == IF existingNodes = {} THEN Len(g.nodes) + 1 ELSE Min(existingNodes)
             link == [from |-> connectedNode, to |-> self, pass |-> g.pass]
             linked == IF made.toAdd # NullArray
                       THEN [made EXCEPT !.toAdd = ArrayOf(Append(@[1], link))]
                       ELSE [made EXCEPT !.models[Len(made.models)].links = @ \cup {link}]
         IN IF made.exception # Null THEN made
            ELSE prepare(linked, self, options, i + 1)

\* createNodeFromObject, lines 80-122.
createNodeFromObject(g, options) ==
    LET column == options.column
        block == options.nodeMaterialBlock
        rowed == [g EXCEPT !.rowPos =
                     IF column \in DOMAIN g.rowPos
                     THEN [g.rowPos EXCEPT ![column] = @ + 1]
                     ELSE [c \in DOMAIN g.rowPos \cup {column} |->
                              IF c = column THEN 0 ELSE g.rowPos[c]]]
        registered == IF block # Null THEN registerOutput(rowed, block) ELSE rowed
        newNode == [block |-> block,
                    kind |-> IF block # Null THEN KindOf(block) ELSE "InputNodeModel",
                    connection |-> IF block # Null THEN Null ELSE options.connection,
                    x |-> BaseX - (ColumnSpacing * column),
                    y |-> RowSpacing * rowed.rowPos[column],
                    model |-> Len(g.models), pass |-> g.pass]
        self == Len(g.nodes) + 1
        added == [registered EXCEPT !.nodes = Append(@, newNode),
                                    !.models[Len(g.models)].nodes = @ \cup {self}]
    IN IF registered.exception # Null THEN registered
       ELSE IF block # Null THEN prepare(added, self, options, 1)
       ELSE added

\* forEach over an output list.
RECURSIVE createOutputNodes(_, _, _)
createOutputNodes(g, outputNodes, i) ==
    IF i > Len(outputNodes) \/ g.exception # Null THEN g
    ELSE createOutputNodes(
             createNodeFromObject(g, NodeCreationOptions(0, outputNodes[i], Null, Null)),
             outputNodes, i + 1)

\* Mutant: the second loop iterates the vertex output nodes again.
build_vertexTwice(g) ==
    LET fresh == [g EXCEPT !.models = Append(@, NoModel), !.pass = Len(g.models) + 1]
        vertex == IF material THEN createOutputNodes(fresh, fresh.vertexOutputNodes, 1) ELSE fresh
        loaded == IF material THEN createOutputNodes(vertex, vertex.vertexOutputNodes, 1) ELSE fresh
    IN IF loaded.exception # Null THEN loaded
       ELSE [loaded EXCEPT !.timers = Append(@, Len(loaded.models)), !.pass = 0]

\* build(), lines 190-274: a new DiagramModel with the editor's listeners, a
\* node for every output block, and the flush scheduled with setTimeout.
build(g) ==
    LET fresh == [g EXCEPT !.models = Append(@, NoModel), !.pass = Len(g.models) + 1]
        vertex == IF material THEN createOutputNodes(fresh, fresh.vertexOutputNodes, 1) ELSE fresh
        loaded == IF material THEN createOutputNodes(vertex, vertex.fragmentOutputNodes, 1) ELSE fresh
    IN IF loaded.exception # Null THEN loaded
       ELSE [loaded EXCEPT !.timers = Append(@, Len(loaded.models)), !.pass = 0]

\* The setTimeout callback of build(), lines 266-273.
timerFired(g) ==
    LET flushed == IF g.toAdd # NullArray
                   THEN [g EXCEPT !.models[Len(g.models)].links = @ \cup Range(g.toAdd[1])]
                   ELSE g
        shown == Emit([flushed EXCEPT !.toAdd = NullArray, !.engineModel = Len(g.models)],
                      "setDiagramModel", Len(g.models), Null)
    IN Emit(shown, "forceUpdate", Null, Null)

\* Mutant: the reset handler keeps the row counters.
resetRequired_keepsRowPos(g, outcome) ==
    LET built == build(g) IN
    IF built.exception # Null THEN built
    ELSE IF material THEN buildMaterial(built, outcome)
    ELSE built

\* The onResetRequiredObservable observer, lines 157-163.
resetRequired(g, outcome) ==
    LET built == build([g EXCEPT !.rowPos = [c \in {} |-> 0]]) IN
    IF built.exception # Null THEN built
    ELSE IF material THEN buildMaterial(built, outcome)
    ELSE built

\* addNodeFromClass, lines 276-290 (the canvas move it schedules changes no
\* field of the editor).
addNodeFromClass(g, block) ==
    LET localNode == createNodeFromObject(g, NodeCreationOptions(0, block, Null, Null)) IN
    IF localNode.exception # Null THEN localNode
    ELSE Emit(localNode, "forceUpdate", Null, Null)

\* nodesUpdated with isCreated = false, lines 197-204.
nodesUpdated(g, n) ==
    LET targetBlock == g.nodes[n].block IN
    IF targetBlock # Null /\ isFinalMerger(targetBlock)
    THEN (IF material THEN removeOutputNode(g, targetBlock) ELSE Throw(g, "TypeError"))
    ELSE g

\* The links of a removed node leave the model after it; both ports of a
\* link made by prepare are bound, so linksUpdated disconnects their points
\* (lines 213-217).
RECURSIVE linksRemoved(_, _)
linksRemoved(g, ls) ==
    IF ls = {} THEN g
    ELSE LET link == CHOOSE l \in ls : TRUE
             from == g.nodes[link.from].block
             to == g.nodes[link.to].block
             cut == Emit([g EXCEPT !.inputs[to] = SelectSeq(@, LAMBDA d : d # from)],
                         "disconnectFrom", from, to)
         IN linksRemoved(cut, ls \ {link})

\* The user deletes node n of model e: the model drops the node and tells
\* the editor, then drops the node's links.
nodeRemoved(g, e, n) ==
    LET told == nodesUpdated([g EXCEPT !.models[e].nodes = @ \ {n}], n)
        gone == {l \in told.models[e].links : n \in {l.from, l.to}}
    IN IF told.exception # Null THEN told
       ELSE linksRemoved([told EXCEPT !.models[e].links = @ \ gone], gone)

\* ---------------------------------------------------------------- InputHub
\* The three revisions of the InputHub under src/: inputHub.ts (keyboard, the
\* event's own modifier flags), part_001 (left and right modifiers tracked)
\* and part_000 (all modifiers tracked, mouse triggers).
HubSources == {"inputHub.ts", "part_001", "part_000"}

Keyboard == "Keyboard"
Mouse == "Mouse"
KEYDOWN == "KEYDOWN"
KEYUP == "KEYUP"
POINTERDOWN == "POINTERDOWN"
POINTERUP == "POINTERUP"
Undefined == "undefined"

Prefixes == {"alt", "shift", "ctrl"}
ShiftKeyCode == 16
CtrlKeyCode == 17
AltKeyCode == 18
ModifierKeyCodes == {ShiftKeyCode, CtrlKeyCode, AltKeyCode}
PrefixOf(keyCode) ==
    CASE keyCode = ShiftKeyCode -> "shift"
      [] keyCode = CtrlKeyCode -> "ctrl"
      [] keyCode = AltKeyCode -> "alt"

\* KeyboardEvent.location: 2 is the right key, 1 the left one, 0 a key that
\* has one place only.
StandardLocation == 0
LeftLocation == 1
RightLocation == 2

\* Two regular keys and two mouse buttons.
KeyA == 65
KeyB == 66
LeftButton == 0
RightButton == 2

\* A keyboard trigger and a mouse trigger; a modifier that is not required
\* is FALSE, rightModifier is "true", "false" or Undefined.
KeyboardTrigger(keyCode, modifiers, released, rightModifier) ==
    [device |-> Keyboard, keyCode |-> keyCode,
     altModifier |-> "alt" \in modifiers, shiftModifier |-> "shift" \in modifiers,
     ctrlModifier |-> "ctrl" \in modifiers,
     released |-> released, rightModifier |-> rightModifier]

MouseTrigger(button, modifiers, released, rightModifier) ==
    [device |-> Mouse, button |-> button,
     altModifier |-> "alt" \in modifiers, shiftModifier |-> "shift" \in modifiers,
     ctrlModifier |-> "ctrl" \in modifiers,
     released |-> released, rightModifier |-> rightModifier]

\* KeyboardHubEvent / MouseHubEvent.
HubEvent(name, trigger) == [name |-> name, trigger |-> trigger]

Requires(trigger, prefix) ==
    CASE prefix = "alt" -> trigger.altModifier
      [] prefix = "shift" -> trigger.shiftModifier
      [] prefix = "ctrl" -> trigger.ctrlModifier

\* KeyboardInfo: the event's altKey, shiftKey and ctrlKey tell whether a key
\* of that kind is down.
KeyboardInfo(type, keyCode, location, down) ==
    [device |-> Keyboard, type |-> type, keyCode |-> keyCode, location |-> location,
     altKey |-> \E k \in down : k[1] = AltKeyCode,
     shiftKey |-> \E k \in down : k[1] = ShiftKeyCode,
     ctrlKey |-> \E k \in down : k[1] = CtrlKeyCode]

PointerInfo(type, button) == [device |-> Mouse, type |-> type, button |-> button]

\* keyEvent[prefix + "Key"].
KeyFlag(evt, prefix) ==
    CASE prefix = "alt" -> evt.altKey
      [] prefix = "shift" -> evt.shiftKey
      [] prefix = "ctrl" -> evt.ctrlKey

ModifierStateNames ==
    Prefixes \cup {p \o "Left" : p \in Prefixes} \cup {p \o "Right" : p \in Prefixes}

\* The hub's fields, the scene's observers and the calls made, as a value.
HubCurrent ==
    [hubSource |-> hubSource, keyboardHubEvents |-> keyboardHubEvents,
     mouseHubEvents |-> mouseHubEvents, modifierStates |-> modifierStates,
     onKeyboardObserver |-> onKeyboardObserver, onPointerObserver |-> onPointerObserver,
     sceneObservers |-> sceneObservers, eventObservers |-> eventObservers,
     trace |-> <<>>]

\* The constructor: the keyboard observer is added to the scene and, in
\* part_000, the pointer observer.
InputHub(source) ==
    [hubSource |-> source, keyboardHubEvents |-> <<>>, mouseHubEvents |-> <<>>,
     modifierStates |-> [s \in ModifierStateNames |-> FALSE],
     onKeyboardObserver |-> "onKeyboard",
     onPointerObserver |-> IF source = "part_000" THEN "onPointer" ELSE Null,
     sceneObservers |-> IF source = "part_000" THEN {"onKeyboard", "onPointer"}
                        ELSE {"onKeyboard"},
     eventObservers |-> 0, trace |-> <<>>]

\* onEventObservable.notifyObservers(name): the observers that receive it
\* are those on the observable.
notifyObservers(h, name) == Emit(h, "notifyObservers", name, h.eventObservers)

\* The trigger is for the event's key or button and for its type.
Matches(trigger, evt) ==
    IF evt.device = Keyboard
    THEN /\ trigger.keyCode = evt.keyCode
         /\ \/ ~trigger.released /\ evt.type = KEYDOWN
            \/ trigger.released /\ evt.type = KEYUP
    ELSE /\ trigger.button = evt.button
         /\ \/ ~trigger.released /\ evt.type = POINTERDOWN
            \/ trigger.released /\ evt.type = POINTERUP

\* _checkKeyModifier, the test of rightModifier.
rightModifierOk(h, prefix, trigger) ==
    IF trigger.rightModifier # Undefined
    THEN IF trigger.rightModifier = "true" /\ ~h.modifierStates[prefix \o "Right"] THEN FALSE
         ELSE IF trigger.rightModifier = "false" /\ ~h.modifierStates[prefix \o "Left"] THEN FALSE
         ELSE TRUE
    ELSE TRUE

\* _checkKeyModifier: part_000 reads the modifier's tracked state, part_001
\* the event's flag.
checkKeyModifier(h, prefix, trigger, evt) ==
    IF h.hubSource = "part_000"
    THEN IF ~h.modifierStates[prefix] THEN FALSE ELSE rightModifierOk(h, prefix, trigger)
    ELSE IF ~KeyFlag(evt, prefix) THEN FALSE ELSE rightModifierOk(h, prefix, trigger)

\* _checkModifier (part_000), the three tests of part_001's loop, and the
\* condition of inputHub.ts, which reads the event's flags only.
checkModifier(h, trigger, evt) ==
    IF h.hubSource = "inputHub.ts"
    THEN \A prefix \in Prefixes : ~Requires(trigger, prefix) \/ KeyFlag(evt, prefix)
    ELSE \A prefix \in Prefixes :
             Requires(trigger, prefix) => checkKeyModifier(h, prefix, trigger, evt)

RECURSIVE raiseEvents(_, _, _, _, _)
\* Mutant: a trigger fires for its key or button whatever the type of the
\* event.
raiseEvents_anyType(h, hubEvents, evt, i, raisedEvents) ==
    IF i > Len(hubEvents) THEN h
    ELSE LET e == hubEvents[i]
             same == IF evt.device = Keyboard THEN e.trigger.keyCode = evt.keyCode
                     ELSE e.trigger.button = evt.button
         IN IF ~(same /\ checkModifier(h, e.trigger, evt))
            THEN raiseEvents(h, hubEvents, evt, i + 1, raisedEvents)
            ELSE IF h.hubSource # "inputHub.ts" /\ e.name \in raisedEvents
                THEN raiseEvents(h, hubEvents, evt, i + 1, raisedEvents)
            ELSE raiseEvents(notifyObservers(h, e.name), hubEvents, evt, i + 1,
                             raisedEvents \cup {e.name})

\* The loop over the registered events: the event of each trigger that
\* matches is notified; part_000 and part_001 skip a name already raised in
\* this call, inputHub.ts does not.
raiseEvents(h, hubEvents, evt, i, raisedEvents) ==
    IF i > Len(hubEvents) THEN h
    ELSE LET e == hubEvents[i] IN
         IF ~(Matches(e.trigger, evt) /\ checkModifier(h, e.trigger, evt))
         THEN raiseEvents(h, hubEvents, evt, i + 1, raisedEvents)
         ELSE IF h.hubSource # "inputHub.ts" /\ e.name \in raisedEvents
             THEN raiseEvents(h, hubEvents, evt, i + 1, raisedEvents)
         ELSE raiseEvents(notifyObservers(h, e.name), hubEvents, evt, i + 1,
                          raisedEvents \cup {e.name})

\* The cases 16, 17 and 18 of the keyboard observer: part_000 sets the
\* modifier's state and its left or right state, part_001 the latter only.
trackModifier(h, evt) ==
    LET prefix == PrefixOf(evt.keyCode)
        down == evt.type = KEYDOWN
        side == IF evt.location = RightLocation THEN "Right" ELSE "Left"
        any == IF h.hubSource = "part_000"
               THEN [h EXCEPT !.modifierStates[prefix] = down]
               ELSE h
    IN [any EXCEPT !.modifierStates[prefix \o side] = down]

\* The observer on scene.onKeyboardObservable.
onKeyboard(h, evt) ==
    IF h.hubSource # "inputHub.ts" /\ evt.keyCode \in ModifierKeyCodes
    THEN trackModifier(h, evt)
    ELSE raiseEvents(h, h.keyboardHubEvents, evt, 1, {})

\* The observer on scene.onPointerObservable (part_000).
onPointer(h, evt) == raiseEvents(h, h.mouseHubEvents, evt, 1, {})

addKeyboardEvent(h, name, trigger) ==
    [h EXCEPT !.keyboardHubEvents = Append(@, HubEvent(name, trigger))]

addMouseEvent(h, name, trigger) ==
    [h EXCEPT !.mouseHubEvents = Append(@, HubEvent(name, trigger))]

\* addEvent: each trigger is added by its device; only part_000 has the
\* case of the mouse.
RECURSIVE addEvent(_, _, _, _)
addEvent(h, name, triggers, i) ==
    IF i > Len(triggers) THEN h
    ELSE LET trigger == triggers[i]
             added ==
                 IF trigger.device = Keyboard THEN addKeyboardEvent(h, name, trigger)
                 ELSE IF trigger.device = Mouse /\ h.hubSource = "part_000"
                     THEN addMouseEvent(h, name, trigger)
                 ELSE h
         IN addEvent(added, name, triggers, i + 1)

\* Mutant: the pointer observer stays on the scene.
dispose_keepsPointer(h) ==
    LET keyboard ==
            IF h.onKeyboardObserver # Null
            THEN [h EXCEPT !.sceneObservers = @ \ {h.onKeyboardObserver},
                           !.onKeyboardObserver = Null]
            ELSE h
    IN [keyboard EXCEPT !.eventObservers = 0]

\* dispose: the observers are removed from the scene and onEventObservable
\* is cleared.
dispose(h) ==
    LET keyboard ==
            IF h.onKeyboardObserver # Null
            THEN [h EXCEPT !.sceneObservers = @ \ {h.onKeyboardObserver},
                           !.onKeyboardObserver = Null]
            ELSE h
        pointer ==
            IF keyboard.onPointerObserver # Null
            THEN [keyboard EXCEPT !.sceneObservers = @ \ {keyboard.onPointerObserver},
                                  !.onPointerObserver = Null]
            ELSE keyboard
    IN [pointer EXCEPT !.eventObservers = 0]

\* ------------------------------------------------------------------ state
\* The calls a handler made; an exception that left the handler is the
\* last entry.
Finished(st) ==
    IF st.exception = Null THEN st.trace
    ELSE Append(st.trace, [op |-> "uncaught", a |-> st.exception, b |-> Null])

Commit(st) ==
    /\ portConnection' = st.portConnection
    /\ portName' = st.portName
    /\ nodeConnection' = st.nodeConnection
    /\ cpValue' = st.cpValue
    /\ cpEdges' = st.cpEdges
    /\ trace' = Finished(st)

Event(kind, src, tgt, acted) == [kind |-> kind, src |-> src, tgt |-> tgt, acted |-> acted]

Calls(tr, op) == SelectSeq(tr, LAMBDA e : e.op = op)

\* What the handlers did to the node material for a link.
ActedOf(tr) ==
    IF Calls(tr, "connectTo") # <<>> THEN "connectTo"
    ELSE IF Calls(tr, "setValue") # <<>> THEN "inject"
    ELSE "none"

\* A link the user has started from port p, with the editor's listener on it;
\* acted remembers what targetPortChanged did when the link was completed.
NewLink(p) ==
    [sourcePort |-> p, targetPort |-> Null, listeners |-> 1, acted |-> "none", removed |-> FALSE]
NoLink ==
    [sourcePort |-> Null, targetPort |-> Null, listeners |-> 0, acted |-> "none", removed |-> FALSE]

\* Link states of the engine: SourceSet until the target port is set, Removed
\* once the link was removed from its model.
LinkState(lk) ==
    IF lk.removed THEN "Removed"
    ELSE IF lk.targetPort = Null THEN "SourceSet" ELSE "FullyBound"

\* linksUpdated adds a listener to e.link on every call (line 225), so also
\* when the link was removed: the removed link object has one listener more.
Detached(lk) == [lk EXCEPT !.listeners = @ + 1, !.removed = TRUE]

NoConnect == [link |-> NoLink, cpValue |-> [c \in Points |-> Null], cpEdges |-> {}]

\* Assigns the editor's fields and the output lists, and the calls made.
GraphCommit(result) ==
    \E g \in {result} :
        /\ inputs' = g.inputs
        /\ vertexOutputNodes' = g.vertexOutputNodes
        /\ fragmentOutputNodes' = g.fragmentOutputNodes
        /\ rowPos' = g.rowPos
        /\ nodes' = g.nodes
        /\ models' = g.models
        /\ toAdd' = g.toAdd
        /\ timers' = g.timers
        /\ engineModel' = g.engineModel
        /\ trace' = Finished(g)

\* The editor after its constructor ran build() for the material.
Constructed(graph, vertex, fragment) ==
    \E g \in {build(NewEditor(graph, vertex, fragment))} :
        /\ inputs = g.inputs
        /\ vertexOutputNodes = g.vertexOutputNodes
        /\ fragmentOutputNodes = g.fragmentOutputNodes
        /\ rowPos = g.rowPos
        /\ nodes = g.nodes
        /\ models = g.models
        /\ toAdd = g.toAdd
        /\ timers = g.timers
        /\ engineModel = g.engineModel

\* Assigns the hub's fields and the scene's observers, and the calls made.
HubCommit(result) ==
    \E h \in {result} :
        /\ hubSource' = h.hubSource
        /\ keyboardHubEvents' = h.keyboardHubEvents
        /\ mouseHubEvents' = h.mouseHubEvents
        /\ modifierStates' = h.modifierStates
        /\ onKeyboardObserver' = h.onKeyboardObserver
        /\ onPointerObserver' = h.onPointerObserver
        /\ sceneObservers' = h.sceneObservers
        /\ eventObservers' = h.eventObservers
        /\ trace' = h.trace

\* The hub as the given operations left it, with no key held down.
HubIs(h) ==
    /\ hubSource = h.hubSource
    /\ keyboardHubEvents = h.keyboardHubEvents
    /\ mouseHubEvents = h.mouseHubEvents
    /\ modifierStates = h.modifierStates
    /\ onKeyboardObserver = h.onKeyboardObserver
    /\ onPointerObserver = h.onPointerObserver
    /\ sceneObservers = h.sceneObservers
    /\ eventObservers = h.eventObservers
    /\ held = {}

\* The ports, connection points and links the link handlers start from.
InitLinks ==
    /\ valueNodes = {}
    /\ portConnection = [p \in Ports |-> IF p \in BlockPorts THEN BlockPortPoint(p) ELSE Null]
    /\ portName = [p \in Ports |-> IF p \in BlockPorts THEN PointName(BlockPortPoint(p)) ELSE Null]
    /\ portDefaultValue = [p \in Ports |-> Null]
    /\ nodeConnection = [p \in ValuePorts |-> Null]
    /\ cpValue = [c \in Points |-> IF c = "Y" THEN "Preset" ELSE Null]
    /\ cpEdges = {}
    /\ links = EmptyBag
    /\ trace = <<>>
    /\ last = Event("init", Null, Null, "none")
    /\ preConnect = NoConnect

\* Spec follows the links of an editor whose material has no output block:
\* the nodes whose ports the links join are not laid out here.
Init ==
    /\ material \in BOOLEAN
    /\ InitLinks
    /\ Constructed(NoGraph, <<>>, <<>>)
    /\ HubIs(InputHub("part_000"))

\* GraphSpec starts from an editor constructed for any of the graphs, with
\* r1 and r2 as the material's output blocks; without a material there is
\* nothing to construct from.
GraphInit ==
    /\ material \in BOOLEAN
    /\ InitLinks
    /\ IF material
       THEN \E graph \in Graphs : Constructed(graph, <<"r1">>, <<"r2">>)
       ELSE Constructed(NoGraph, <<>>, <<>>)
    /\ HubIs(InputHub("part_000"))

\* ---------------------------------------------------------------- actions
\* addValueNode(type, column, connection): a new Input node with one output
\* port; the node list calls it with the type only.
addValueNode(p, type, connection) ==
    /\ valueNodes' = valueNodes \cup {p}
    /\ nodeConnection' = [nodeConnection EXCEPT ![getNode(p)] = connection]
    /\ portName' = [portName EXCEPT ![p] = type]
    /\ portDefaultValue' = [portDefaultValue EXCEPT ![p] =
                               IF connection = Null THEN DefaultValueOf(type) ELSE Null]
    /\ UNCHANGED <<portConnection, cpValue, cpEdges>>

\* addValueNode called with a type, a column and a connection of the given
\* sets: the Input node is created and laid out by createNodeFromObject
\* (line 293), then given its port.
ValueNodeAdded(types, columns, connections) ==
    \E p \in ValuePorts, type \in types, column \in columns, connection \in connections :
        /\ p \notin valueNodes
        /\ last' = Event("addValueNode", p, Null, "none")
        /\ GraphCommit(createNodeFromObject(GraphCurrent,
                           NodeCreationOptions(column, Null, type, connection)))
        /\ addValueNode(p, type, connection)
        /\ preConnect' = NoConnect
        /\ UNCHANGED <<hubVars, material, links>>

\* The node list calls addValueNode(type): column 0, no connection.
AddValueNode == ValueNodeAdded(NodeListTypes, {0}, {Null})

ExistingPorts == BlockPorts \cup valueNodes

\* The user starts a link from a port; the model reports linksUpdated with
\* isCreated = true and the editor adds its listener to the link.
LinkCreated ==
    \E p \in ExistingPorts :
        /\ BagCardinality(links) < MaxLinks
        /\ links' = links (+) SetToBag({NewLink(p)})
        /\ last' = Event("linkCreated", p, Null, "none")
        /\ trace' = <<>>
        /\ preConnect' = NoConnect
        /\ UNCHANGED <<hubVars, material, valueNodes, portConnection, portName, portDefaultValue,
                       nodeConnection, cpValue, cpEdges, graphVars>>

\* sourcePortChanged: console.log only.
SourcePortChanged ==
    \E lk \in BagToSet(links), p \in ExistingPorts :
        /\ LinkState(lk) = "SourceSet"
        /\ lk.sourcePort # p
        /\ links' = (links (-) SetToBag({lk})) (+) SetToBag({[lk EXCEPT !.sourcePort = p]})
        /\ last' = Event("sourcePortChanged", p, Null, "none")
        /\ trace' = <<[op |-> "console.log", a |-> "port change", b |-> Null]>>
        /\ preConnect' = NoConnect
        /\ UNCHANGED <<hubVars, material, valueNodes, portConnection, portName, portDefaultValue,
                       nodeConnection, cpValue, cpEdges, graphVars>>

BothBound(src, tgt) ==
    /\ SortInputOutput(src, tgt).valid
    /\ portConnection[src] # Null
    /\ portConnection[tgt] # Null

\* The link's target port is set: every listener runs targetPortChanged.
TargetPortChanged ==
    \E lk \in BagToSet(links), p \in ExistingPorts :
        /\ LinkState(lk) = "SourceSet"
        /\ \E outs \in [1..lk.listeners -> Outcomes] :
              Commit(NotifyTargetPortChanged(Current, lk.listeners, lk.sourcePort, p, outs))
        /\ links' = (links (-) SetToBag({lk}))
                        (+) SetToBag({[lk EXCEPT !.targetPort = p, !.acted = ActedOf(trace')]})
        /\ last' = Event("targetPortChanged", lk.sourcePort, p, ActedOf(trace'))
        /\ preConnect' = IF BothBound(lk.sourcePort, p)
                         THEN [link |-> [lk EXCEPT !.targetPort = p, !.acted = ActedOf(trace')],
                               cpValue |-> cpValue, cpEdges |-> cpEdges]
                         ELSE NoConnect
        /\ UNCHANGED <<hubVars, material, valueNodes, portDefaultValue, graphVars>>

\* The link is removed from the model: linksUpdated with isCreated = false.
\* The link object is dropped with the model's reference to it, or is kept
\* by whoever still refers to it.
LinkRemovedAnd(kept) ==
    \E lk \in BagToSet(links) :
        /\ LinkState(lk) # "Removed"
        /\ Commit(linkDeleted(Current, lk.sourcePort, lk.targetPort))
        /\ links' = (links (-) SetToBag({lk}))
                        (+) (IF kept THEN SetToBag({Detached(lk)}) ELSE EmptyBag)
        /\ last' = Event("linkRemoved", lk.sourcePort, lk.targetPort, lk.acted)
        /\ preConnect' = IF preConnect.link = lk THEN preConnect ELSE NoConnect
        /\ UNCHANGED <<hubVars, material, valueNodes, portDefaultValue, graphVars>>

LinkRemoved == LinkRemovedAnd(FALSE)

\* The onRebuildRequiredObservable observer, lines 150-155.
rebuildRequired(st, outcome) ==
    LET built == IF material THEN buildMaterial(st, outcome) ELSE st IN
    IF built.exception # Null THEN built
    ELSE Emit(built, "forceUpdate", Null, Null)

\* onRebuildRequiredObservable.
RebuildRequired ==
    \E outcome \in Outcomes :
        /\ Commit(rebuildRequired(Current, outcome))
        /\ last' = Event("rebuildRequired", Null, Null, "none")
        /\ preConnect' = NoConnect
        /\ UNCHANGED <<hubVars, material, valueNodes, portDefaultValue, links, graphVars>>

Next ==
    \/ AddValueNode
    \/ LinkCreated
    \/ SourcePortChanged
    \/ TargetPortChanged
    \/ LinkRemoved
    \/ RebuildRequired

Spec == Init /\ [][Next]_vars

\* ------------------------------------------------- construction events
linkVars == <<valueNodes, portConnection, portName, portDefaultValue, nodeConnection,
              cpValue, cpEdges, links>>

\* onResetRequiredObservable is notified.
ResetRequired ==
    \E outcome \in Outcomes :
        /\ Len(models) < MaxPasses
        /\ GraphCommit(resetRequired(GraphCurrent, outcome))
        /\ last' = Event("resetRequired", Null, Null, "none")
        /\ preConnect' = NoConnect
        /\ UNCHANGED <<hubVars, material, linkVars>>

\* The oldest scheduled flush runs.
TimerFired ==
    /\ timers # <<>>
    /\ GraphCommit(timerFired([GraphCurrent EXCEPT !.timers = Tail(@)]))
    /\ last' = Event("timerFired", Head(timers), Null, "none")
    /\ preConnect' = NoConnect
    /\ UNCHANGED <<hubVars, material, linkVars>>

\* The node list calls addNodeFromClass: the block is a new object.  The
\* output class is offered when a material is edited.
AddNodeFromClass ==
    \E block \in ClassBlocks :
        /\ \A k \in DOMAIN nodes : nodes[k].block # block
        /\ isFinalMerger(block) => material
        /\ GraphCommit(addNodeFromClass(GraphCurrent, block))
        /\ last' = Event("addNodeFromClass", block, Null, "none")
        /\ preConnect' = NoConnect
        /\ UNCHANGED <<hubVars, material, linkVars>>

\* The nodes deleted from their model.
Removed == {k \in DOMAIN nodes : k \notin models[nodes[k].model].nodes}

\* The user deletes a node of the model the engine shows, one node of a
\* model at most.
NodeRemoved ==
    /\ engineModel # 0
    /\ \A k \in Removed : nodes[k].model # engineModel
    /\ \E n \in models[engineModel].nodes :
          /\ GraphCommit(nodeRemoved(GraphCurrent, engineModel, n))
          /\ last' = Event("nodeRemoved", n, nodes[n].block, "none")
    /\ preConnect' = NoConnect
    /\ UNCHANGED <<hubVars, material, linkVars>>

GraphNext ==
    \/ ResetRequired
    \/ TimerFired
    \/ AddNodeFromClass
    \/ NodeRemoved
    \/ RebuildRequired

GraphSpec == GraphInit /\ [][GraphNext]_vars

\* ------------------------------------------------------- rebuild events
\* The three events that rebuild the material: rebuild required, reset
\* required and the completion of a link.
RebuildNext ==
    \/ RebuildRequired
    \/ ResetRequired
    \/ LinkCreated
    \/ TargetPortChanged

RebuildSpec == Init /\ [][RebuildNext]_vars

\* -------------------------------------------------- removed link events
\* The removed link object stays referenced.
LinkRemovedKept == LinkRemovedAnd(TRUE)

\* setTargetPort is called on a removed link object: its listeners, the one
\* added on creation and the one added on removal, run targetPortChanged.
RemovedLinkTargetPortChanged ==
    \E lk \in BagToSet(links), p \in ExistingPorts :
        /\ LinkState(lk) = "Removed"
        /\ lk.targetPort # p
        /\ \E outs \in [1..lk.listeners -> Outcomes] :
              Commit(NotifyTargetPortChanged(Current, lk.listeners, lk.sourcePort, p, outs))
        /\ links' = (links (-) SetToBag({lk})) (+) SetToBag({[lk EXCEPT !.targetPort = p]})
        /\ last' = Event("removedTargetPortChanged", lk.sourcePort, p, ActedOf(trace'))
        /\ preConnect' = NoConnect
        /\ UNCHANGED <<hubVars, material, valueNodes, portDefaultValue, graphVars>>

RemovedNext ==
    \/ LinkCreated
    \/ TargetPortChanged
    \/ LinkRemovedKept
    \/ RemovedLinkTargetPortChanged

RemovedSpec == Init /\ [][RemovedNext]_vars

\* ------------------------------------------------------ value node events
\* addValueNode(type, column, connection) with any of the type names, in
\* column 0 (the default) or 1, without a connection or with the connection
\* point the node is created for.
AddAnyValueNode == ValueNodeAdded(TypeNames, {0, 1}, {Null} \cup InputPoints)

ValueNext ==
    \/ AddAnyValueNode
    \/ LinkCreated
    \/ TargetPortChanged

ValueSpec == Init /\ [][ValueNext]_vars

\* ------------------------------------------------------- InputHub events
editorVars == <<material, linkVars, preConnect, graphVars>>

\* An editor without a material, beside which the hub runs.
NoEditor ==
    /\ material = FALSE
    /\ InitLinks
    /\ Constructed(NoGraph, <<>>, <<>>)

\* addEvent(name, [trigger]) with a name and a trigger of the given sets.
EventAdded(names, triggers) ==
    \E name \in names, trigger \in triggers :
        /\ Len(keyboardHubEvents) + Len(mouseHubEvents) < MaxTriggers
        /\ HubCommit(addEvent(HubCurrent, name, <<trigger>>, 1))
        /\ last' = Event("addEvent", name, trigger.device, "none")
        /\ UNCHANGED <<held, editorVars>>

\* The scene notifies a keyboard event for one of the given keys: a modifier
\* key goes down if it is up and up if it is down, a regular key does
\* either.  The hub's observer runs if it is on the scene.
KeyEvent(keys) ==
    \E key \in keys, type \in {KEYDOWN, KEYUP} :
        /\ key[1] \in ModifierKeyCodes =>
              IF type = KEYDOWN THEN key \notin held /\ Cardinality(held) < MaxHeld
              ELSE key \in held
        /\ held' = IF key[1] \notin ModifierKeyCodes THEN held
                   ELSE IF type = KEYDOWN THEN held \cup {key} ELSE held \ {key}
        /\ HubCommit(IF "onKeyboard" \in sceneObservers
                     THEN onKeyboard(HubCurrent, KeyboardInfo(type, key[1], key[2], held'))
                     ELSE HubCurrent)
        /\ last' = Event("keyboard", key[1], type, "none")
        /\ UNCHANGED editorVars

\* The scene notifies a pointer event.
PointerEvent ==
    \E button \in {LeftButton, RightButton}, type \in {POINTERDOWN, POINTERUP} :
        /\ HubCommit(IF "onPointer" \in sceneObservers
                     THEN onPointer(HubCurrent, PointerInfo(type, button))
                     ELSE HubCurrent)
        /\ last' = Event("pointer", button, type, "none")
        /\ UNCHANGED <<held, editorVars>>

\* An observer is added to onEventObservable.
Subscribe ==
    /\ eventObservers < MaxObservers
    /\ eventObservers' = eventObservers + 1
    /\ trace' = <<>>
    /\ last' = Event("subscribe", Null, Null, "none")
    /\ UNCHANGED <<hubSource, keyboardHubEvents, mouseHubEvents, modifierStates,
                   onKeyboardObserver, onPointerObserver, sceneObservers, held, editorVars>>

Dispose ==
    /\ HubCommit(dispose(HubCurrent))
    /\ last' = Event("dispose", Null, Null, "none")
    /\ UNCHANGED <<held, editorVars>>

\* Triggers for key A or the left button, pressed or released, with or
\* without shift, under two names.
HubNames == {"jump", "fire"}
HubTriggers ==
    {KeyboardTrigger(KeyA, mods, released, Undefined) :
         mods \in {{}, {"shift"}}, released \in BOOLEAN}
    \cup {MouseTrigger(LeftButton, mods, released, Undefined) :
              mods \in {{}, {"shift"}}, released \in BOOLEAN}

AddEvent == EventAdded(HubNames, HubTriggers)

\* The keys A and B and the left shift key.
KeyboardEvent ==
    KeyEvent({<<KeyA, StandardLocation>>, <<KeyB, StandardLocation>>,
              <<ShiftKeyCode, LeftLocation>>})

HubInit ==
    /\ NoEditor
    /\ \E source \in HubSources : HubIs(InputHub(source))

HubNext ==
    \/ AddEvent
    \/ KeyboardEvent
    \/ PointerEvent
    \/ Subscribe
    \/ Dispose

HubSpec == HubInit /\ [][HubNext]_vars

\* ------------------------------------------------------- modifier events
\* One trigger for key A or the left button that requires a modifier, or
\* shift and ctrl, with each value of rightModifier.
ModifierTriggers ==
    {KeyboardTrigger(KeyA, mods, FALSE, right) :
         mods \in {{"alt"}, {"shift"}, {"ctrl"}, {"shift", "ctrl"}},
         right \in {Undefined, "true", "false"}}
    \cup {MouseTrigger(LeftButton, mods, FALSE, right) :
              mods \in {{"alt"}, {"shift"}, {"ctrl"}, {"shift", "ctrl"}},
              right \in {Undefined, "true", "false"}}

\* The left and the right key of each modifier.
ModifierKeys == ModifierKeyCodes \X {LeftLocation, RightLocation}

\* A hub with one event, registered after construction.
ModifierInit ==
    /\ NoEditor
    /\ \E source \in HubSources, trigger \in ModifierTriggers :
          HubIs(addEvent(InputHub(source), "jump", <<trigger>>, 1))

ModifierKeyEvent == KeyEvent(ModifierKeys \cup {<<KeyA, StandardLocation>>})

ModifierNext ==
    \/ ModifierKeyEvent
    \/ PointerEvent

ModifierSpec == ModifierInit /\ [][ModifierNext]_vars

\* ----------------------------------------------------------------- claims
Entry(op, a, b) == [op |-> op, a |-> a, b |-> b]

\* The resolved ports of the last event's link.
LastLink == SortInputOutput(last.src, last.tgt)

\* C1: when a link's target port is set, orientation resolves and both
\* resolved ports are bound, connectTo is called exactly once, on the output
\* port's connection point with the input port's connection point, whichever
\* endpoint was the source; no value is injected.
C1_ConnectOnce ==
    [][(last'.kind = "targetPortChanged" /\ BothBound(last'.src, last'.tgt)) =>
        LET link == SortInputOutput(last'.src, last'.tgt) IN
        /\ Calls(trace', "connectTo")
              = <<Entry("connectTo", portConnection[link.output], portConnection[link.input])>>
        /\ Calls(trace', "setValue") = <<>>
        /\ cpValue' = cpValue
        /\ cpEdges' = cpEdges \cup {<<portConnection[link.output], portConnection[link.input]>>}]_vars

\* A link drawn from an input port to an output port was completed and
\* connectTo was called.
C1_Witness ==
    /\ last.kind = "targetPortChanged"
    /\ Position(last.src) = "input"
    /\ Position(last.tgt) = "output"
    /\ last.acted = "connectTo"
    /\ Calls(trace, "connectTo") # <<>>

\* The last event's link resolved with only its input port bound.
OnlyInputBound(src, tgt) ==
    /\ SortInputOutput(src, tgt).valid
    /\ portConnection[SortInputOutput(src, tgt).input] # Null
    /\ portConnection[SortInputOutput(src, tgt).output] = Null

\* C2: completing a link between an unbound Input node's output port and a
\* bound input connection point X leaves the output port referencing X with
\* its name unchanged, the Input node recording X, and X holding the port's
\* literal default (the zero vector for a Vector3 node); connectTo is not
\* called.
C2_ValueInjection ==
    [][(last'.kind = "targetPortChanged" /\ OnlyInputBound(last'.src, last'.tgt)) =>
        LET link == SortInputOutput(last'.src, last'.tgt)
            X == portConnection[link.input]
        IN /\ portConnection'[link.output] = X
           /\ portName'[link.output] = portName[link.output]
           /\ nodeConnection'[getNode(link.output)] = X
           /\ cpValue'[X] = portDefaultValue[link.output]
           /\ (portName[link.output] = "Vector3" => cpValue'[X] = "Vector3.Zero")
           /\ Calls(trace', "connectTo") = <<>>]_vars

\* A Vector3 Input node's port was linked to X's port: the port references X,
\* is still named Vector3, and X holds the zero vector.
C2_Witness ==
    /\ last.kind = "targetPortChanged"
    /\ last.acted = "inject"
    /\ \E p \in valueNodes :
          /\ p \in {last.src, last.tgt}
          /\ portConnection[p] = "X"
          /\ portName[p] = "Vector3"
          /\ nodeConnection[getNode(p)] = "X"
    /\ cpValue["X"] = "Vector3.Zero"

\* C3: removing the link that value injection completed resets X's held
\* value to null and calls no disconnectFrom; and on any removal where only
\* the input port is bound and holds a value, the value is cleared and
\* disconnectFrom is not called.
C3_RemoveInjectedClears ==
    [][(last'.kind = "linkRemoved" /\ SortInputOutput(last'.src, last'.tgt).valid) =>
        LET link == SortInputOutput(last'.src, last'.tgt)
            X == portConnection[link.input]
        IN /\ (last'.acted = "inject" =>
                  /\ cpValue'[X] = Null
                  /\ Calls(trace', "disconnectFrom") = <<>>)
           /\ ((OnlyInputBound(last'.src, last'.tgt) /\ Truthy(cpValue[X])) =>
                  /\ cpValue'[X] = Null
                  /\ Calls(trace', "disconnectFrom") = <<>>)]_vars

\* C4: removing a link whose resolved ports are both bound calls
\* disconnectFrom on the output's point with the input's point, and only
\* afterwards resynchronises the input port and the output port from their
\* own points; no held value is cleared.
C4_DisconnectThenSync ==
    [][(last'.kind = "linkRemoved" /\ BothBound(last'.src, last'.tgt)) =>
        LET link == SortInputOutput(last'.src, last'.tgt)
            oc == portConnection[link.output]
            ic == portConnection[link.input]
        IN /\ Calls(trace', "disconnectFrom") = <<Entry("disconnectFrom", oc, ic)>>
           /\ Calls(trace', "sync") = <<Entry("sync", link.input, ic), Entry("sync", link.output, oc)>>
           /\ \A i, j \in DOMAIN trace' :
                 (trace'[i].op = "disconnectFrom" /\ trace'[j].op = "sync") => i < j
           /\ Calls(trace', "setValue") = <<>>
           /\ cpValue' = cpValue
           /\ portConnection' = portConnection]_vars

\* A connected link into Y, which holds a value, was removed: disconnectFrom
\* was called and Y still holds its value.
C4_Witness ==
    /\ last.kind = "linkRemoved"
    /\ last.acted = "connectTo"
    /\ LastLink.valid
    /\ LastLink.input = "pY"
    /\ Calls(trace, "disconnectFrom") # <<>>
    /\ Len(Calls(trace, "sync")) = 2
    /\ cpValue["Y"] = "Preset"

\* C5: completing a link between two bound ports and then immediately
\* removing that link returns the connection points to their state before
\* the link was completed: the same held values and the same connections.
C5_ConnectDisconnectRoundTrip ==
    (last.kind = "linkRemoved" /\ preConnect.link # NoLink) =>
        /\ cpValue = preConnect.cpValue
        /\ cpEdges = preConnect.cpEdges

SemanticOps == {"connectTo", "disconnectFrom", "setValue", "sync", "setName",
                "setNodeConnection", "buildMaterial", "build", "log"}

\* C6: when the orientation of a link's endpoints is invalid, completing or
\* removing the link changes nothing in the node material or the ports'
\* bindings: no connectTo, disconnectFrom, value change, rebuild or log entry.
C6_InvalidIgnored ==
    [][(/\ last'.kind \in {"targetPortChanged", "linkRemoved"}
        /\ ~SortInputOutput(last'.src, last'.tgt).valid) =>
        /\ UNCHANGED <<cpValue, cpEdges, portConnection, portName, nodeConnection>>
        /\ \A i \in DOMAIN trace' : trace'[i].op \notin SemanticOps]_vars

\* With a material present, a link between two input ports was completed
\* and nothing was done.
C6_Witness ==
    /\ material
    /\ last.kind = "targetPortChanged"
    /\ Position(last.src) = "input"
    /\ Position(last.tgt) = "input"
    /\ last.src # last.tgt
    /\ trace = <<>>

\* The state the handlers leave, with the calls they made.
Observed == [Current EXCEPT !.trace = trace]

OneInputOneOutput(src, tgt) ==
    /\ src # Null
    /\ tgt # Null
    /\ {Position(src), Position(tgt)} = {"input", "output"}

\* C8: every link the engine acted on (connectTo called or value injected)
\* has one input port and one output port; a same-direction pair is never
\* committed.
C8_CommittedLinksOriented ==
    /\ \A lk \in BagToSet(links) :
          lk.acted # "none" => OneInputOneOutput(lk.sourcePort, lk.targetPort)
    /\ last.acted # "none" => OneInputOneOutput(last.src, last.tgt)

\* A link between two ports of the same direction was completed and not
\* acted on, while a connected link exists.
C8_Witness ==
    /\ last.kind = "targetPortChanged"
    /\ Position(last.src) = Position(last.tgt)
    /\ last.acted = "none"
    /\ \E lk \in BagToSet(links) : lk.acted = "connectTo"

C10_BuildLogsOnce ==
    material =>
        /\ \A i \in DOMAIN trace :
              trace[i].op = "buildMaterial" =>
                  /\ i + 2 <= Len(trace)
                  /\ trace[i + 1].op = "build"
                  /\ trace[i + 2] =
                        (IF trace[i + 1].b = BuildOk
                         THEN Entry("log", "info", "Node material build successful")
                         ELSE Entry("log", "error", trace[i + 1].b))
                  /\ (i + 3 <= Len(trace) => trace[i + 3].op \notin {"build", "log"})
        /\ Len(Calls(trace, "build")) = Len(Calls(trace, "buildMaterial"))
        /\ Len(Calls(trace, "log")) = Len(Calls(trace, "buildMaterial"))

\* A build threw and exactly the error entry was logged.
C10_Witness ==
    /\ material
    /\ \E i \in DOMAIN trace :
          /\ trace[i].op = "build"
          /\ trace[i].b \in BuildErrors
          /\ trace[i + 1] = Entry("log", "error", trace[i].b)
    /\ Len(Calls(trace, "log")) = 1

\* The material's output nodes: the root set construction starts from.
OutputNodes == vertexOutputNodes \o fragmentOutputNodes

BuildFailed(tr) == \E i \in DOMAIN tr : tr[i].op = "build" /\ tr[i].b \in BuildErrors

\* C11: an error thrown by the material's build never leaves buildMaterial:
\* the caller (the reset observer, the rebuild-required observer, the link
\* handler) goes on, the error is logged, and no further build follows it
\* within the event; a build is made only by a rebuild-required, a
\* reset-required or a link-completed event, once.
C11_BuildFailureContained ==
    /\ \A i \in DOMAIN trace : trace[i].op = "uncaught" => trace[i].a \notin BuildErrors
    /\ \A i \in DOMAIN trace :
          (trace[i].op = "build" /\ trace[i].b \in BuildErrors) =>
              /\ i < Len(trace)
              /\ trace[i + 1] = Entry("log", "error", trace[i].b)
              /\ \A j \in DOMAIN trace : j > i => trace[j].op \notin {"build", "buildMaterial"}
    /\ Calls(trace, "build") # <<>> =>
          last.kind \in {"rebuildRequired", "resetRequired", "targetPortChanged"}
    /\ Len(Calls(trace, "build")) <= 1
    /\ (last.kind = "rebuildRequired" /\ BuildFailed(trace)) =>
          trace[Len(trace)] = Entry("forceUpdate", Null, Null)

\* A reset built a new model and its rebuild failed: the error was logged.
C11_Witness ==
    /\ material
    /\ last.kind = "resetRequired"
    /\ Len(models) = 2
    /\ BuildFailed(trace)
    /\ trace[Len(trace)].op = "log"

\* C12: a construction pass started before the flush of the previous pass
\* ran discards the previous pass's pending links: a model only ever holds
\* links made by its own pass, and the timer of an earlier pass changes no
\* model when it fires.
C12_PendingDiscarded ==
    [][/\ \A m \in DOMAIN models' : \A l \in models'[m].links : l.pass = m
       /\ (last'.kind = "timerFired" /\ last'.src # Len(models)) => models' = models]_vars

\* C13: in every construction pass, also one started after a flush has run,
\* nothing the pass makes enters the model the engine shows, its links are
\* appended to the pending links and inserted in no model, and one flush is
\* scheduled after the pass.
C13_PassOnlyPends ==
    [][last'.kind = "resetRequired" =>
          /\ engineModel' = engineModel
          /\ engineModel # 0 => models'[engineModel] = models[engineModel]
          /\ toAdd' # NullArray
          /\ models'[Len(models')].links = {}
          /\ timers' = Append(timers, Len(models'))]_vars

\* C14: every final merger wrapped by a node of the editor's model (the one
\* the engine shows) is exactly once among the material's output nodes, and
\* the final merger of a deleted node is no longer among them.
C14_MergersRegisteredOnce ==
    /\ engineModel = Len(models) =>
          \A k \in models[engineModel].nodes :
              isFinalMerger(nodes[k].block) => Occurs(OutputNodes, nodes[k].block) = 1
    /\ (last.kind = "nodeRemoved" /\ isFinalMerger(last.tgt)) =>
          Occurs(OutputNodes, last.tgt) = 0

Successors(S) == S \cup UNION {Range(inputs[b]) : b \in S}
RECURSIVE ReachableFrom(_)
ReachableFrom(S) == IF Successors(S) = S THEN S ELSE ReachableFrom(Successors(S))
Reachable == ReachableFrom(Range(OutputNodes))

PendingLinks == IF toAdd = NullArray THEN {} ELSE Range(toAdd[1])

\* The links a pass made, pending or in its model.
PassLinks(pass) == {l \in PendingLinks \cup models[pass].links : l.pass = pass}

NodesOfBlock(S, block) == {k \in S : nodes[k].block = block}

\* The model of the last pass holds one node for each reachable block and
\* none for another block.
OneNodePerReachable ==
    \A b \in Blocks :
        Cardinality(NodesOfBlock(models[Len(models)].nodes, b))
            = (IF b \in Reachable THEN 1 ELSE 0)

\* C16: when a construction pass is done (the constructor's, or a reset's),
\* its model holds exactly one node for every block reachable from the
\* output nodes, and every link the pass made joins a node to a node one
\* column further.
C16_OneNodePerBlock ==
    last.kind \in {"init", "resetRequired"} =>
        /\ OneNodePerReachable
        /\ \A l \in PassLinks(Len(models)) :
              Column(nodes[l.from]) = Column(nodes[l.to]) + 1

\* The nodes a pass created in a column, in creation order.
InColumn(pass, column) ==
    SelectSeq(nodes, LAMBDA n : n.pass = pass /\ Column(n) = column)

RowsFromZero(pass) ==
    \A c \in {Column(nodes[k]) : k \in DOMAIN nodes} :
        \A j \in DOMAIN InColumn(pass, c) : Row(InColumn(pass, c)[j]) = j - 1

\* C17: in every construction pass the nodes created in a column get the
\* rows 0, 1, 2, ... in creation order, so no two nodes of a pass have the
\* same column and row.
C17_RowsContiguous ==
    /\ \A pass \in DOMAIN models : RowsFromZero(pass)
    /\ \A j, k \in DOMAIN nodes :
          (j # k /\ nodes[j].pass = nodes[k].pass /\ nodes[j].pass # 0) =>
              <<nodes[j].x, nodes[j].y>> # <<nodes[k].x, nodes[k].y>>

\* A reset's pass gave rows 0 and 1 in column 0 although the row counter of
\* column 0 had reached 2 before (a node had been added from the node list).
C17_Witness ==
    /\ last.kind = "resetRequired"
    /\ Len(InColumn(2, 0)) >= 2
    /\ \E k \in DOMAIN nodes : nodes[k].pass = 0 /\ nodes[k].model = 1 /\ Row(nodes[k]) = 2
    /\ rowPos[0] = Len(InColumn(2, 0)) - 1

\* C18: after the reset handler the new model holds exactly one node for
\* every block reachable from the output nodes, with the rows of the pass
\* starting at 0, its links join nodes of the new model only, the material
\* was rebuilt once, and a second reset gives the same blocks and the same
\* output nodes as the first.
C18_ResetRebuildsAll ==
    [][last'.kind = "resetRequired" =>
          /\ OneNodePerReachable'
          /\ RowsFromZero(Len(models'))
          /\ \A l \in PassLinks(Len(models))' :
                {l.from, l.to} \subseteq models'[Len(models')].nodes
          /\ Len(Calls(trace', "buildMaterial")) = (IF material THEN 1 ELSE 0)
          /\ last.kind = "resetRequired" =>
                /\ {nodes'[k].block : k \in models'[Len(models')].nodes}
                      = {nodes[k].block : k \in models[Len(models)].nodes}
                /\ OutputNodes' = OutputNodes]_vars

\* Two output blocks, one without a dependency, one depending on a.
ScenarioGraphs == {GraphOf(<<>>, <<"a">>, <<>>), GraphOf(<<"a">>, <<>>, <<>>)}

\* The constructor's pass is done, or flushed, and nothing else happened.
Fresh ==
    \/ last.kind = "init"
    \/ /\ last.kind = "timerFired"
       /\ Len(models) = 1
       /\ \A k \in DOMAIN nodes : nodes[k].pass = 1 /\ k \in models[1].nodes

\* C19: constructing from two output blocks, one without a dependency and
\* one with one direct dependency, gives 3 nodes, two in column 0 with rows
\* 0 and 1 and one in column 1 with row 0 (in this creation order when the
\* block without a dependency comes first), and 1 link.
C19_TwoOutputsScenario ==
    (inputs \in ScenarioGraphs /\ OutputNodes = <<"r1", "r2">> /\ Fresh) =>
        /\ Len(nodes) = 3
        /\ [k \in 1..3 |-> Column(nodes[k])] \in {<<0, 0, 1>>, <<0, 1, 0>>}
        /\ {<<Column(nodes[k]), Row(nodes[k])>> : k \in 1..3} = {<<0, 0>>, <<0, 1>>, <<1, 0>>}
        /\ inputs = GraphOf(<<>>, <<"a">>, <<>>) =>
              /\ [k \in 1..3 |-> Column(nodes[k])] = <<0, 0, 1>>
              /\ [k \in 1..3 |-> Row(nodes[k])] = <<0, 1, 0>>
        /\ Cardinality(PendingLinks \cup models[1].links) = 1
        /\ last.kind = "timerFired" => Cardinality(models[1].links) = 1

\* The scenario's graph was constructed and flushed: the model holds its
\* three nodes and its link.
C19_Witness ==
    /\ inputs = GraphOf(<<>>, <<"a">>, <<>>)
    /\ OutputNodes = <<"r1", "r2">>
    /\ last.kind = "timerFired"
    /\ Fresh
    /\ Cardinality(models[1].nodes) = 3
    /\ Cardinality(models[1].links) = 1

\* The literal defaults: zero, identity, white.
LiteralDefault(type) ==
    IF type \in {"Vector2", "Vector3", "Vector4"} THEN type \o ".Zero"
    ELSE IF type = "Matrix" THEN "Matrix.Identity"
    ELSE IF type = "Color3" THEN "Color3.White"
    ELSE "Color4(1,1,1,1)"

\* C20: addValueNode creates an Input node with one output port; without a
\* connection the port's default value is zero for Vector2, Vector3 and
\* Vector4, the identity for Matrix and white for Color3 and Color4; with a
\* connection no default value is set and the node records the connection.
C20_LiteralDefaults ==
    [][last'.kind = "addValueNode" =>
          LET node == nodes'[Len(nodes')]
              port == last'.src
              type == portName'[port]
          IN /\ Len(nodes') = Len(nodes) + 1
             /\ node.kind = "InputNodeModel"
             /\ node.block = Null
             /\ valueNodes' = valueNodes \cup {port}
             /\ Position(port) = "output"
             /\ type \in TypeNames
             /\ nodeConnection'[getNode(port)] = node.connection
             /\ node.connection = Null => portDefaultValue'[port] = LiteralDefault(type)
             /\ node.connection # Null => portDefaultValue'[port] = Null]_vars

\* A Color3 node was added without a connection: its port's default is white.
C20_Witness ==
    /\ last.kind = "addValueNode"
    /\ \E p \in valueNodes :
          /\ portName[p] = "Color3"
          /\ portDefaultValue[p] = "Color3.White"
          /\ nodeConnection[getNode(p)] = Null

\* C21: on every link removal the selection is cleared (the selection
\* changed observable is notified with null) once and before anything else
\* the removal does, also when the orientation of the ports is invalid.
C21_SelectionClearedFirst ==
    last.kind = "linkRemoved" =>
        /\ trace # <<>>
        /\ trace[1] = Entry("selectionChanged", Null, Null)
        /\ Len(Calls(trace, "selectionChanged")) = 1

\* A removal disconnected two points after it had cleared the selection.
C21_Witness ==
    /\ last.kind = "linkRemoved"
    /\ Len(trace) >= 2
    /\ trace[1].op = "selectionChanged"
    /\ trace[2].op = "disconnectFrom"

\* What a handler did left the connection points as they were.
PointsUntouched(before, after) ==
    /\ after.cpValue = before.cpValue
    /\ after.cpEdges = before.cpEdges
    /\ \A i \in DOMAIN after.trace :
          after.trace[i].op \notin {"connectTo", "disconnectFrom", "setValue"}

InputPorts == {p \in Ports : Position(p) = "input"}
OutputPorts == {p \in Ports : Position(p) = "output"}

\* C26: when a link with a valid orientation is completed or removed and
\* its input port is unbound, its output port is unbound too (a link with
\* one bound port has the input bound); and were only the output port
\* bound, completing or removing the link would call no connectTo, no
\* disconnectFrom and change no value.
C26_UnboundSideIsOutput ==
    [][/\ (/\ last'.kind \in {"targetPortChanged", "linkRemoved"}
           /\ SortInputOutput(last'.src, last'.tgt).valid) =>
              LET link == SortInputOutput(last'.src, last'.tgt) IN
              portConnection[link.input] = Null => portConnection[link.output] = Null
       /\ \A in \in InputPorts, out \in OutputPorts :
             portConnection[out] # Null =>
                LET st == [Current EXCEPT !.portConnection[in] = Null] IN
                /\ \A o \in Outcomes :
                      /\ PointsUntouched(st, targetPortChanged(st, out, in, o))
                      /\ PointsUntouched(st, targetPortChanged(st, in, out, o))
                /\ PointsUntouched(st, linkDeleted(st, out, in))
                /\ PointsUntouched(st, linkDeleted(st, in, out))]_vars

\* A link whose only bound port was its input port was completed: the
\* Color4 default of the unbound output port was injected.
C26_Witness ==
    /\ last.kind = "targetPortChanged"
    /\ last.acted = "inject"
    /\ LastLink.valid
    /\ LastLink.output \in valueNodes
    /\ portName[LastLink.output] = "Color4"
    /\ cpValue[portConnection[LastLink.input]] = "Color4(1,1,1,1)"

\* C27: the output port of an Input node that adopted a connection point X
\* by value injection is bound from then on: completing another link from it
\* to a bound input port calls connectTo on X with that port's point and
\* injects nothing, and the port is still bound to X after the link that
\* injected is removed.
C27_AdoptedPortIsBound ==
    [][/\ (/\ last'.kind = "targetPortChanged"
           /\ SortInputOutput(last'.src, last'.tgt).valid) =>
              LET link == SortInputOutput(last'.src, last'.tgt) IN
              (/\ link.output \in valueNodes
               /\ portConnection[link.output] # Null
               /\ portConnection[link.input] # Null) =>
                  /\ Calls(trace', "connectTo")
                        = <<Entry("connectTo", portConnection[link.output], portConnection[link.input])>>
                  /\ Calls(trace', "setValue") = <<>>
                  /\ cpValue' = cpValue
       /\ (last'.kind = "linkRemoved" /\ last'.acted = "inject") =>
              LET link == SortInputOutput(last'.src, last'.tgt) IN
              /\ portConnection[link.output] # Null
              /\ portConnection'[link.output] = portConnection[link.output]
       /\ \A p \in valueNodes :
              portConnection[p] # Null => portConnection'[p] = portConnection[p]]_vars

\* The port of an Input node that had adopted X was linked to Y's port: X
\* was connected to Y and Y keeps its value.
C27_Witness ==
    /\ last.kind = "targetPortChanged"
    /\ \E p \in valueNodes : p \in {last.src, last.tgt} /\ portConnection[p] = "X"
    /\ Calls(trace, "connectTo") = <<Entry("connectTo", "X", "Y")>>
    /\ cpValue["Y"] = "Preset"

\* C28: without a material nothing is built and nothing is logged, whether
\* a rebuild is required, a reset is required or a link is completed; and
\* buildMaterial itself, called without a material, returns at once.
C28_NoMaterialNoBuild ==
    ~material =>
        /\ \A i \in DOMAIN trace : trace[i].op \notin {"build", "log", "uncaught"}
        /\ \A o \in Outcomes :
              buildMaterial(Current, o) = Emit(Current, "buildMaterial", Null, Null)

\* Without a material a reset was handled after a link had been completed
\* between two bound ports.
C28_Witness ==
    /\ ~material
    /\ last.kind = "resetRequired"
    /\ Len(models) = 2
    /\ cpEdges # {}

\* C25: Removed is a terminal state of a link: an event on a link whose
\* removal was handled calls no connectTo, injects no value, rebinds no port
\* and rebuilds nothing.
C25_RemovedIsTerminal ==
    [][last'.kind = "removedTargetPortChanged" =>
          /\ UNCHANGED <<cpValue, cpEdges, portConnection, portName, nodeConnection>>
          /\ \A i \in DOMAIN trace' : trace'[i].op \notin SemanticOps]_vars

\* The registered keyboard (mouse) events whose trigger is for the key
\* (button) and the type of the last hardware event.
KeyboardFor ==
    {e \in Range(keyboardHubEvents) :
        /\ last.kind = "keyboard"
        /\ e.trigger.keyCode = last.src
        /\ e.trigger.released <=> last.tgt = KEYUP}

MouseFor ==
    {e \in Range(mouseHubEvents) :
        /\ last.kind = "pointer"
        /\ e.trigger.button = last.src
        /\ e.trigger.released <=> last.tgt = POINTERUP}

\* The left (right) key of the modifier is held down.
HeldSide(prefix, location) ==
    \E k \in held : PrefixOf(k[1]) = prefix /\ k[2] = location

\* The modifier is held as the trigger wants it: the right key, the left
\* key, or either if rightModifier is not set.
ModifierHeld(trigger, prefix) ==
    IF trigger.rightModifier = "true" THEN HeldSide(prefix, RightLocation)
    ELSE IF trigger.rightModifier = "false" THEN HeldSide(prefix, LeftLocation)
    ELSE HeldSide(prefix, LeftLocation) \/ HeldSide(prefix, RightLocation)

RequirementsHeld(trigger) ==
    \A prefix \in Prefixes : Requires(trigger, prefix) => ModifierHeld(trigger, prefix)

Raised(name) == \E i \in DOMAIN trace : trace[i].a = name

\* The events raised by the last hardware event are those of triggers for
\* it whose modifiers are held; and a trigger for it with rightModifier not
\* set raises its event whenever its modifiers are held, left or right.
ModifiersRespected(for) ==
    /\ \A i \in DOMAIN trace :
          \E e \in for : e.name = trace[i].a /\ RequirementsHeld(e.trigger)
    /\ \A e \in for :
          (e.trigger.rightModifier = Undefined /\ RequirementsHeld(e.trigger)) =>
              Raised(e.name)

\* C22: a trigger that requires a modifier fires only while the modifier is
\* held: the right key if rightModifier is true, the left key if it is
\* false; and if rightModifier is not set it fires whenever the left or the
\* right key is held.
C22_ModifierRequired ==
    /\ last.kind = "keyboard" => ModifiersRespected(KeyboardFor)
    /\ last.kind = "pointer" => ModifiersRespected(MouseFor)

\* C23: a hardware event notifies each event name at most once, however
\* many triggers with that name match it, notifies the name of every trigger
\* that matches it, and notifies no name without a matching trigger.
C23_RaisedOncePerEvent ==
    last.kind \in {"keyboard", "pointer"} =>
        /\ \A i, j \in DOMAIN trace : i # j => trace[i].a # trace[j].a
        /\ \A e \in KeyboardFor \cup MouseFor :
              (RequirementsHeld(e.trigger) /\ sceneObservers # {}) => Raised(e.name)
        /\ \A i \in DOMAIN trace :
              \E e \in KeyboardFor \cup MouseFor :
                  e.name = trace[i].a /\ RequirementsHeld(e.trigger)

\* C24: every event raised by a key-up (pointer-up) comes from a trigger
\* with released set for that key (button), every event raised by a key-down
\* (pointer-down) from a trigger without released for it; no trigger fires
\* for another key or button.
C24_ReleasedOnUp ==
    /\ last.kind = "keyboard" =>
          \A i \in DOMAIN trace :
              \E e \in Range(keyboardHubEvents) :
                  /\ e.name = trace[i].a
                  /\ e.trigger.keyCode = last.src
                  /\ e.trigger.released <=> last.tgt = KEYUP
    /\ last.kind = "pointer" =>
          \A i \in DOMAIN trace :
              \E e \in Range(mouseHubEvents) :
                  /\ e.name = trace[i].a
                  /\ e.trigger.button = last.src
                  /\ e.trigger.released <=> last.tgt = POINTERUP
    /\ last.kind \notin {"keyboard", "pointer"} => trace = <<>>

\* Key A went up with a released trigger and a pressed trigger registered
\* for it under two names: only the event of the released one was raised.
C24_Witness ==
    /\ last.kind = "keyboard"
    /\ last.src = KeyA
    /\ last.tgt = KEYUP
    /\ Len(keyboardHubEvents) = 2
    /\ keyboardHubEvents[1].trigger.released
    /\ ~keyboardHubEvents[2].trigger.released
    /\ keyboardHubEvents[1].name # keyboardHubEvents[2].name
    /\ trace = <<Entry("notifyObservers", keyboardHubEvents[1].name, eventObservers)>>

\* C29: dispose removes the hub's observers from the scene and clears
\* onEventObservable; from then on no keyboard or pointer event raises a hub
\* event; a second dispose changes nothing.
C29_DisposeSilences ==
    [][/\ last'.kind = "dispose" =>
              /\ sceneObservers' = {}
              /\ onKeyboardObserver' = Null
              /\ onPointerObserver' = Null
              /\ eventObservers' = 0
       /\ sceneObservers = {} =>
              /\ sceneObservers' = {}
              /\ last'.kind \in {"keyboard", "pointer"} => trace' = <<>>
       /\ (last.kind = "dispose" /\ last'.kind = "dispose") =>
              UNCHANGED <<hubSource, keyboardHubEvents, mouseHubEvents, modifierStates,
                          onKeyboardObserver, onPointerObserver, sceneObservers,
                          eventObservers>>]_vars

\* After dispose key A went down, for which a trigger without modifier is
\* registered, and nothing was raised.
C29_Witness ==
    /\ sceneObservers = {}
    /\ last.kind = "keyboard"
    /\ \E e \in KeyboardFor : RequirementsHeld(e.trigger)
    /\ trace = <<>>

====
